---- MODULE Spec2Model ----
(***************************************************************************)
(* Wiki race solver (src/main.py): identifier normalisation, the on-disk   *)
(* document cache and fetcher, link extraction with section and container  *)
(* filters, the fail-open expansion adapter and the breadth-first search.  *)
(*                                                                         *)
(* Strings are sequences of one-character strings, so that prefix tests,   *)
(* splitting and percent-decoding are computed character by character.     *)
(***************************************************************************)
EXTENDS Integers, Sequences, FiniteSets, TLC

(***************************************************************************)
(* Python string primitives used by the helpers                            *)
(***************************************************************************)

\* str.startswith
StartsWith(s, p) == Len(s) >= Len(p) /\ SubSeq(s, 1, Len(p)) = p

\* str.find(c, from): least index >= from holding a character of cs, 0 if none
FindAny(s, cs, from) ==
  IF \E i \in from..Len(s) : s[i] \in cs
  THEN CHOOSE i \in from..Len(s) : s[i] \in cs /\ \A j \in from..(i - 1) : s[j] \notin cs
  ELSE 0

\* s[i:] (1-based i)
Drop(s, i) == SubSeq(s, i, Len(s))

\* s.split(c, 1)[0]
BeforeFirst(s, c) ==
  LET i == FindAny(s, {c}, 1) IN IF i = 0 THEN s ELSE SubSeq(s, 1, i - 1)

\* str.strip() over the whitespace of the modelled alphabet
RECURSIVE LStrip(_)
LStrip(s) == IF s # <<>> /\ s[1] = " " THEN LStrip(Tail(s)) ELSE s
RECURSIVE RStrip(_)
RStrip(s) == IF s # <<>> /\ s[Len(s)] = " " THEN RStrip(SubSeq(s, 1, Len(s) - 1)) ELSE s
Strip(s) == RStrip(LStrip(s))

\* str.replace(a, b) for single characters
Replace(s, a, b) == [i \in 1..Len(s) |-> IF s[i] = a THEN b ELSE s[i]]

(***************************************************************************)
(* urllib.parse.unquote: one left-to-right pass; "%XY" with two hex digits *)
(* becomes the byte 16*X+Y decoded as UTF-8 with errors='replace'; any     *)
(* other "%" is kept.  The decoded text is not scanned again.              *)
(***************************************************************************)
HexDigits == <<"0","1","2","3","4","5","6","7","8","9","A","B","C","D","E","F">>
HexLower == <<"0","1","2","3","4","5","6","7","8","9","a","b","c","d","e","f">>
IsHex(c) == \E i \in 1..16 : HexDigits[i] = c \/ HexLower[i] = c
HexVal(c) == (CHOOSE i \in 1..16 : HexDigits[i] = c \/ HexLower[i] = c) - 1

\* The printable ASCII characters, code 32 first (the double quote, the
\* backslash and the backtick are written as named tokens).
Ascii ==
  <<" ","!","<dquote>","#","$","%","&","'","(",")","*","+",",","-",".","/",
    "0","1","2","3","4","5","6","7","8","9",":",";","<","=",">","?",
    "@","A","B","C","D","E","F","G","H","I","J","K","L","M","N","O",
    "P","Q","R","S","T","U","V","W","X","Y","Z","[","<backslash>","]","^","_",
    "<backtick>","a","b","c","d","e","f","g","h","i","j","k","l","m","n","o",
    "p","q","r","s","t","u","v","w","x","y","z","{","|","}","~">>

\* A lone byte 128..255 is no valid UTF-8 and decodes to U+FFFD; bytes below
\* 32 and 127 are control characters.
Chr(b) ==
  IF b >= 32 /\ b <= 126 THEN Ascii[b - 31]
  ELSE IF b < 128 THEN "<ctrl>" ELSE "<U+FFFD>"

RECURSIVE unquote(_)
unquote(s) ==
  IF s = <<>> THEN <<>>
  ELSE IF s[1] = "%" /\ Len(s) >= 3 /\ IsHex(s[2]) /\ IsHex(s[3])
       THEN <<Chr(16 * HexVal(s[2]) + HexVal(s[3]))>> \o unquote(Drop(s, 4))
       ELSE <<s[1]>> \o unquote(Tail(s))

(***************************************************************************)
(* urllib.parse.urlparse(s).path                                           *)
(***************************************************************************)
Letters == {Ascii[i] : i \in 34..59} \cup {Ascii[i] : i \in 66..91}
Digits == {Ascii[i] : i \in 17..26}
SchemeChars == Letters \cup Digits \cup {"+", "-", "."}

\* The url with "scheme:" removed when a valid scheme precedes the first ":".
AfterScheme(url) ==
  LET i == FindAny(url, {":"}, 1) IN
  IF i > 1 /\ url[1] \in Letters /\ \A j \in 1..(i - 1) : url[j] \in SchemeChars
  THEN Drop(url, i + 1) ELSE url

HasScheme(url) == AfterScheme(url) # url

\* _splitnetloc: "//netloc" runs up to the first of "/", "?", "#".
AfterNetloc(url) ==
  IF StartsWith(url, <<"/", "/">>)
  THEN LET d == FindAny(url, {"/", "?", "#"}, 3) IN
       IF d = 0 THEN <<>> ELSE Drop(url, d)
  ELSE url

\* _splitparams: ";params" of the last path segment is cut off (http, https
\* and the empty scheme all take params).
LastSlash(url) ==
  IF \E i \in 1..Len(url) : url[i] = "/"
  THEN CHOOSE i \in 1..Len(url) : url[i] = "/" /\ \A j \in (i + 1)..Len(url) : url[j] # "/"
  ELSE 0

SplitParams(url) ==
  LET i == FindAny(url, {";"}, LastSlash(url) + 1) IN
  IF i = 0 THEN url ELSE SubSeq(url, 1, i - 1)

\* str.lower over ASCII
Lower(s) ==
  [i \in 1..Len(s) |->
     IF \E k \in 34..59 : Ascii[k] = s[i]
     THEN Ascii[(CHOOSE k \in 34..59 : Ascii[k] = s[i]) + 32] ELSE s[i]]

SchemeName(url) ==
  LET i == FindAny(url, {":"}, 1) IN IF HasScheme(url) THEN SubSeq(url, 1, i - 1) ELSE <<>>

urlparse_path(url) ==
  LET rest == AfterNetloc(AfterScheme(url))
      nofrag == BeforeFirst(rest, "#")
      noquery == BeforeFirst(nofrag, "?")
  IN  IF Lower(SchemeName(url)) \in {<<>>, <<"h","t","t","p">>, <<"h","t","t","p","s">>}
      THEN SplitParams(noquery) ELSE noquery

(***************************************************************************)
(* Config and helpers (src/main.py lines 13-79)                            *)
(***************************************************************************)
ARTICLE_PREFIX == <<"/", "w", "i", "k", "i", "/">>

SKIP_SECTIONS ==
  {"References", "Notes", "Footnotes", "Further reading",
   "External links", "Bibliography", "Sources", "Citations"}

SKIP_ANCHOR_CLASSES == {"reference", "mw-selflink", "external", "extiw"}

SKIP_CONTAINER_CLASSES ==
  {"reflist", "navbox", "infobox", "metadata", "hatnote",
   "toc", "mbox-small", "sistersitebox", "vertical-navbox"}

\* norm_article_url without the test of lines 50-51
norm_article_url_unchecked(url_or_path) ==
  LET s == Strip(url_or_path)
      path == IF StartsWith(s, <<"h", "t", "t", "p">>) THEN urlparse_path(s) ELSE s
  IN  [raised |-> FALSE,
       value |-> Replace(unquote(BeforeFirst(path, "#")), " ", "_")]

\* norm_article_url: [raised |-> TRUE] is the ValueError of line 51.
norm_article_url(url_or_path) ==
  LET s == Strip(url_or_path)
      path == IF StartsWith(s, <<"h", "t", "t", "p">>) THEN urlparse_path(s) ELSE s
  IN  IF ~StartsWith(path, ARTICLE_PREFIX)
      THEN [raised |-> TRUE, value |-> <<>>]
      ELSE [raised |-> FALSE,
            value |-> Replace(unquote(BeforeFirst(path, "#")), " ", "_")]

\* in_main_namespace, with the colon test on the text handed in
in_main_namespace(href) ==
  IF href = <<>> \/ ~StartsWith(href, ARTICLE_PREFIX)
  THEN FALSE
  ELSE LET title == Drop(href, Len(ARTICLE_PREFIX) + 1) IN
       \A i \in 1..Len(title) : title[i] # ":"

\* is_skippable_container over an element's class set
is_skippable_container(classes) == classes \cap SKIP_CONTAINER_CLASSES # {}

(***************************************************************************)
(* The parsed document.  A Document is [broken, content, body]: broken     *)
(* says that parsing or walking it raises, content whether an element with *)
(* id mw-content-text exists, body is the sequence of children of the      *)
(* element the loop of line 130 iterates.  A child is                      *)
(*   [tag, name, classes, headline, text, anchors]                         *)
(* (tag FALSE: a text node; headline: the stripped text of a descendant    *)
(* of class mw-headline, NoHeadline if there is none; text: the stripped   *)
(* text of the child itself), and an anchor of a child is                  *)
(*   [has_href, href, classes, text, ancestors]                            *)
(* in document order, where ancestors lists the elements strictly between  *)
(* the child and the anchor, outermost first, each [name, classes].        *)
(***************************************************************************)
NoHeadline == "<none>"

\* a.parent of an anchor under body child node
anchor_parent_classes(node, a) ==
  IF a.ancestors = <<>> THEN node.classes ELSE a.ancestors[Len(a.ancestors)].classes

\* node.select("sup.reference") ... decompose(): the anchor is gone when one of
\* its ancestors below the child is a sup of class reference
in_sup_reference(a) ==
  \E i \in 1..Len(a.ancestors) :
     a.ancestors[i].name = "sup" /\ "reference" \in a.ancestors[i].classes

\* lines 157-165: the tests an anchor of find_all("a", href=True) must pass
anchor_accepted(node, a) ==
  /\ a.has_href
  /\ ~in_sup_reference(a)
  /\ ~is_skippable_container(anchor_parent_classes(node, a))
  /\ a.classes \cap SKIP_ANCHOR_CLASSES = {}
  /\ in_main_namespace(a.href)

\* a positions map that keeps only the latest anchor text of a child
positions_latest(positions, child, text) ==
  IF child \in DOMAIN positions
  THEN [positions EXCEPT ![child] = <<text>>]
  ELSE positions @@ (child :> <<text>>)

\* positions[child].append(...) on a defaultdict(list)
positions_append(positions, child, text) ==
  IF child \in DOMAIN positions
  THEN [positions EXCEPT ![child] = Append(@, text)]
  ELSE positions @@ (child :> <<text>>)

\* lines 156-171: the anchors of one p/ul/ol child, in order, from anchor i on
RECURSIVE collect_anchors(_, _, _, _)
collect_anchors(node, i, links, positions) ==
  IF i > Len(node.anchors) THEN [links |-> links, positions |-> positions]
  ELSE LET a == node.anchors[i] IN
       IF ~anchor_accepted(node, a)
       THEN collect_anchors(node, i + 1, links, positions)
       ELSE LET child == norm_article_url(a.href).value IN
            collect_anchors(node, i + 1, Append(links, child),
                            positions_append(positions, child, a.text))

\* lines 131-171: one iteration of the loop over body.children; st is
\* [links, positions, current_section, in_skip_section]
heading_section(node) ==
  IF node.headline # NoHeadline THEN node.headline ELSE node.text

\* the loop body with a flag that a later heading never clears
process_child_sticky_skip(st, node) ==
  IF ~node.tag THEN st
  ELSE IF is_skippable_container(node.classes) THEN st
  ELSE IF node.name \in {"h2", "h3", "h4"}
       THEN [st EXCEPT !.current_section = heading_section(node),
                       !.in_skip_section = st.in_skip_section
                                           \/ heading_section(node) \in SKIP_SECTIONS]
  ELSE IF st.in_skip_section THEN st
  ELSE IF node.name \in {"p", "ul", "ol"}
       THEN LET r == collect_anchors(node, 1, st.links, st.positions) IN
            [st EXCEPT !.links = r.links, !.positions = r.positions]
  ELSE st

\* the loop body without the test of lines 147-148
process_child_any_section(st, node) ==
  IF ~node.tag THEN st
  ELSE IF is_skippable_container(node.classes) THEN st
  ELSE IF node.name \in {"h2", "h3", "h4"}
       THEN [st EXCEPT !.current_section = heading_section(node),
                       !.in_skip_section = heading_section(node) \in SKIP_SECTIONS]
  ELSE IF node.name \in {"p", "ul", "ol"}
       THEN LET r == collect_anchors(node, 1, st.links, st.positions) IN
            [st EXCEPT !.links = r.links, !.positions = r.positions]
  ELSE st

process_child(st, node) ==
  IF ~node.tag THEN st
  ELSE IF is_skippable_container(node.classes) THEN st
  ELSE IF node.name \in {"h2", "h3", "h4"}
       THEN [st EXCEPT !.current_section = heading_section(node),
                       !.in_skip_section = heading_section(node) \in SKIP_SECTIONS]
  ELSE IF st.in_skip_section THEN st
  ELSE IF node.name \in {"p", "ul", "ol"}
       THEN LET r == collect_anchors(node, 1, st.links, st.positions) IN
            [st EXCEPT !.links = r.links, !.positions = r.positions]
  ELSE st

\* lines 123-127
extract_start ==
  [links |-> <<>>, positions |-> <<>>, current_section |-> "Lead", in_skip_section |-> FALSE]

\* no deduplication: the links as collected
dedup_none(collected) == collected

\* lines 173-180: deduplicate preserving first occurrence
RECURSIVE dedup_from(_, _, _, _)
dedup_from(links, i, seen, ordered) ==
  IF i > Len(links) THEN ordered
  ELSE IF links[i] \notin seen
       THEN dedup_from(links, i + 1, seen \cup {links[i]}, Append(ordered, links[i]))
       ELSE dedup_from(links, i + 1, seen, ordered)

dedup(collected) == dedup_from(collected, 1, {}, <<>>)

\* the loop of line 130 over body[i..]
RECURSIVE process_children(_, _, _)
process_children(st, body, i) ==
  IF i > Len(body) THEN st ELSE process_children(process_child(st, body[i]), body, i + 1)

\* lines 115-180 on the parsed document: (ordered, positions)
parse_links(doc) ==
  IF ~doc.content THEN [links |-> <<>>, positions |-> <<>>]
  ELSE LET st == process_children(extract_start, doc.body, 1) IN
       [links |-> dedup(st.links), positions |-> st.positions]

(***************************************************************************)
(* Fetch and cache (lines 83-101).  The cache directory is a function from *)
(* the cached article paths to their records [html, url]; cache_path is    *)
(* taken to be injective (no digest collisions).  A network response is    *)
(* [kind, html] with kind "ok", "transport_error" (requests.get raises) or *)
(* "bad_status" (raise_for_status raises).                                 *)
(***************************************************************************)
\* the mobile host of line 40
MOBILE_BASE ==
  <<"h","t","t","p","s",":","/","/","e","n",".","m",".",
    "w","i","k","i","p","e","d","i","a",".","o","r","g">>

WIKI_BASE ==
  <<"h","t","t","p","s",":","/","/","e","n",".","w","i","k","i","p","e","d","i","a",".","o","r","g">>

\* urljoin(WIKI_BASE, article_path) for a path that begins with one "/"
urljoin(base, path) == base \o path

\* fetch_html without the cache lookup of lines 89-92
fetch_html_uncached(article_path, cache, resp) ==
  IF resp.kind # "ok"
  THEN [raised |-> TRUE, html |-> resp.html, cache |-> cache,
        requests |-> 1, sleeps |-> 1]
  ELSE [raised |-> FALSE, html |-> resp.html,
        cache |-> (article_path :>
                     [html |-> resp.html, url |-> urljoin(WIKI_BASE, article_path)]) @@ cache,
        requests |-> 1, sleeps |-> 1]

\* fetch_html writing the cache file before raise_for_status of line 97
fetch_html_store_first(article_path, cache, resp) ==
  IF article_path \in DOMAIN cache
  THEN [raised |-> FALSE, html |-> cache[article_path].html, cache |-> cache,
        requests |-> 0, sleeps |-> 0]
  ELSE [raised |-> resp.kind # "ok", html |-> resp.html,
        cache |-> cache @@ (article_path :>
                    [html |-> resp.html, url |-> urljoin(WIKI_BASE, article_path)]),
        requests |-> 1, sleeps |-> 1]

\* fetch_html: [raised, html, cache, requests, sleeps]; requests and sleeps
\* count the network requests and politeness delays of this call
fetch_html(article_path, cache, resp) ==
  IF article_path \in DOMAIN cache
  THEN [raised |-> FALSE, html |-> cache[article_path].html, cache |-> cache,
        requests |-> 0, sleeps |-> 0]
  ELSE IF resp.kind # "ok"
       THEN [raised |-> TRUE, html |-> resp.html, cache |-> cache,
             requests |-> 1, sleeps |-> 1]
       ELSE [raised |-> FALSE, html |-> resp.html,
             cache |-> cache @@ (article_path :>
                         [html |-> resp.html, url |-> urljoin(WIKI_BASE, article_path)]),
             requests |-> 1, sleeps |-> 1]

\* extract_links_and_positions(article_path): fetch, parse, extract
extract_links_and_positions(article_path, cache, resp) ==
  LET f == fetch_html(article_path, cache, resp) IN
  IF f.raised \/ f.html.broken
  THEN [raised |-> TRUE, links |-> <<>>, positions |-> <<>>,
        cache |-> f.cache, requests |-> f.requests, sleeps |-> f.sleeps]
  ELSE LET r == parse_links(f.html) IN
       [raised |-> FALSE, links |-> r.links, positions |-> r.positions,
        cache |-> f.cache, requests |-> f.requests, sleeps |-> f.sleeps]

\* neighbors without the try/except of lines 187-190
neighbors_propagating(article_path, cache, resp) ==
  extract_links_and_positions(article_path, cache, resp)

\* neighbors: any exception of the extraction becomes ([], {})
neighbors(article_path, cache, resp) ==
  LET r == extract_links_and_positions(article_path, cache, resp) IN
  IF r.raised
  THEN [r EXCEPT !.raised = FALSE, !.links = <<>>, !.positions = <<>>]
  ELSE r

(***************************************************************************)
(* Graph search (lines 195-238)                                            *)
(***************************************************************************)
\* Python's None, for a missing predecessor and a missing path: the empty
\* sequence, which is no NodeId (a NodeId begins with "/wiki/") and no path
\* that the search returns (a returned path holds at least its source)
None == <<>>

\* prev_map.get(cur)
prev_get(prev_map, cur) == IF cur \in DOMAIN prev_map THEN prev_map[cur] ELSE None

\* the while loop of reconstruct_path: dst first; fuel bounds the walk by the
\* size of the map, which a walk over an acyclic map never exceeds
RECURSIVE walk_back(_, _, _)
walk_back(prev_map, cur, fuel) ==
  IF cur = None \/ fuel = 0 THEN <<>>
  ELSE <<cur>> \o walk_back(prev_map, prev_get(prev_map, cur), fuel - 1)

Reverse(s) == [i \in 1..Len(s) |-> s[Len(s) + 1 - i]]

\* reconstruct_path without path.reverse() of line 201 and the test after it
reconstruct_path_unreversed(prev_map, s, d) ==
  walk_back(prev_map, d, Cardinality(DOMAIN prev_map) + 1)

reconstruct_path(prev_map, s, d) ==
  LET path == Reverse(walk_back(prev_map, d, Cardinality(DOMAIN prev_map) + 1)) IN
  IF path = <<>> \/ path[1] # s THEN None ELSE path

\* q.pop(): the newest node first
pop_newest(queue) == [u |-> queue[Len(queue)], q |-> SubSeq(queue, 1, Len(queue) - 1)]

\* q.popleft() (line 221)
\* q[0] read without removing it
popleft_peek(queue) == [u |-> Head(queue), q |-> queue]

popleft(queue) == [u |-> Head(queue), q |-> Tail(queue)]

\* the loop without the test of line 228: a node found again is given the later
\* predecessor and queued again
RECURSIVE visit_rediscover(_, _, _, _, _, _, _, _)
visit_rediscover(nbrs, positions, i, u, d, prev_map, pmap, queue) ==
  IF i > Len(nbrs)
  THEN [found |-> FALSE, prev |-> prev_map, pos_map |-> pmap, q |-> queue]
  ELSE LET v == nbrs[i]
           prev1 == (v :> u) @@ prev_map
           pmap1 == IF v \in DOMAIN positions /\ positions[v] # <<>>
                    THEN (<<u, v>> :> positions[v][1]) @@ pmap
                    ELSE pmap
       IN  IF v = d
           THEN [found |-> TRUE, prev |-> prev1, pos_map |-> pmap1, q |-> queue]
           ELSE visit_rediscover(nbrs, positions, i + 1, u, d, prev1, pmap1,
                                 Append(queue, v))

\* the loop with the label of lines 231-232 stored before the test of line 228
RECURSIVE visit_label_all(_, _, _, _, _, _, _, _)
visit_label_all(nbrs, positions, i, u, d, prev_map, pmap, queue) ==
  IF i > Len(nbrs)
  THEN [found |-> FALSE, prev |-> prev_map, pos_map |-> pmap, q |-> queue]
  ELSE LET v == nbrs[i]
           pmap1 == IF v \in DOMAIN positions /\ positions[v] # <<>>
                    THEN (<<u, v>> :> positions[v][1]) @@ pmap
                    ELSE pmap
       IN  IF v \in DOMAIN prev_map
           THEN visit_label_all(nbrs, positions, i + 1, u, d, prev_map, pmap1, queue)
           ELSE LET prev1 == prev_map @@ (v :> u) IN
                IF v = d
                THEN [found |-> TRUE, prev |-> prev1, pos_map |-> pmap1, q |-> queue]
                ELSE visit_label_all(nbrs, positions, i + 1, u, d, prev1, pmap1,
                                     Append(queue, v))

\* the loop ending after the first neighbor
visit_first_only(nbrs, positions, i, u, d, prev_map, pmap, queue) ==
  IF i > Len(nbrs) \/ nbrs[i] \in DOMAIN prev_map
  THEN [found |-> FALSE, prev |-> prev_map, pos_map |-> pmap, q |-> queue]
  ELSE LET v == nbrs[i]
           prev1 == prev_map @@ (v :> u)
           pmap1 == IF v \in DOMAIN positions /\ positions[v] # <<>>
                    THEN (<<u, v>> :> positions[v][1]) @@ pmap
                    ELSE pmap
       IN  [found |-> v = d, prev |-> prev1, pos_map |-> pmap1,
            q |-> IF v = d THEN queue ELSE Append(queue, v)]

\* the loop with `continue` of line 229 replaced by queueing the node again
RECURSIVE visit_requeue(_, _, _, _, _, _, _, _)
visit_requeue(nbrs, positions, i, u, d, prev_map, pmap, queue) ==
  IF i > Len(nbrs)
  THEN [found |-> FALSE, prev |-> prev_map, pos_map |-> pmap, q |-> queue]
  ELSE LET v == nbrs[i] IN
       IF v \in DOMAIN prev_map
       THEN visit_requeue(nbrs, positions, i + 1, u, d, prev_map, pmap, Append(queue, v))
       ELSE LET prev1 == prev_map @@ (v :> u)
                pmap1 == IF v \in DOMAIN positions /\ positions[v] # <<>>
                         THEN (<<u, v>> :> positions[v][1]) @@ pmap
                         ELSE pmap
            IN  IF v = d
                THEN [found |-> TRUE, prev |-> prev1, pos_map |-> pmap1, q |-> queue]
                ELSE visit_requeue(nbrs, positions, i + 1, u, d, prev1, pmap1,
                                   Append(queue, v))

\* lines 227-236: the for loop over nbrs from index i on; found says that the
\* return of line 235 was taken
RECURSIVE visit(_, _, _, _, _, _, _, _)
visit(nbrs, positions, i, u, d, prev_map, pmap, queue) ==
  IF i > Len(nbrs)
  THEN [found |-> FALSE, prev |-> prev_map, pos_map |-> pmap, q |-> queue]
  ELSE LET v == nbrs[i] IN
       IF v \in DOMAIN prev_map
       THEN visit(nbrs, positions, i + 1, u, d, prev_map, pmap, queue)
       ELSE LET prev1 == prev_map @@ (v :> u)
                pmap1 == IF v \in DOMAIN positions /\ positions[v] # <<>>
                         THEN (<<u, v>> :> positions[v][1]) @@ pmap
                         ELSE pmap
            IN  IF v = d
                THEN [found |-> TRUE, prev |-> prev1, pos_map |-> pmap1, q |-> queue]
                ELSE visit(nbrs, positions, i + 1, u, d, prev1, pmap1, Append(queue, v))

(***************************************************************************)
(* Bounds and the inputs drawn from them                                   *)
(***************************************************************************)
\* bfs_shortest_path is called with max_expansions in 0..MaxBudget
MaxBudget == 1
\* the pages the network serves during one run hold at most MaxLinks links
\* in total
MaxLinks == 4

\* solve passes max_expansions=50000 (line 264)
SOLVE_MAX_EXPANSIONS == 50000

NodeA == ARTICLE_PREFIX \o <<"A">>
NodeB == ARTICLE_PREFIX \o <<"B">>
NodeC == ARTICLE_PREFIX \o <<"C">>
NodeD == ARTICLE_PREFIX \o <<"D">>
Nodes == {NodeA, NodeB, NodeC, NodeD}

SeqsUpTo(S, n) == UNION {[1..k -> S] : k \in 0..n}

Ordinal == <<"first", "second", "third", "fourth", "fifth", "sixth">>

plain_anchor(href, text) ==
  [has_href |-> TRUE, href |-> href, classes |-> {}, text |-> text, ancestors |-> <<>>]

element(name, classes, anchors) ==
  [tag |-> TRUE, name |-> name, classes |-> classes, headline |-> NoHeadline,
   text |-> "", anchors |-> anchors]

\* a page whose content is one paragraph linking to targets, in order; the
\* i-th link carries the i-th ordinal as its anchor text
LinkPage(targets) ==
  [broken |-> FALSE, content |-> TRUE,
   body |-> <<element("p", {}, [i \in 1..Len(targets) |->
                                  plain_anchor(targets[i], Ordinal[i])])>>]

NoContentPage == [broken |-> FALSE, content |-> FALSE, body |-> <<>>]
BrokenPage == [broken |-> TRUE, content |-> TRUE, body |-> <<>>]

\* the pages with at most n links
WebPages(n) == {LinkPage(t) : t \in SeqsUpTo(Nodes, n)} \cup {NoContentPage, BrokenPage}

\* what the network may answer to one request: a page with at most n links,
\* or a failure
NetResponses(n) ==
  {[kind |-> "ok", html |-> d] : d \in WebPages(n)}
    \cup {[kind |-> k, html |-> NoContentPage] : k \in {"transport_error", "bad_status"}}

\* the links of a page
RECURSIVE SumLen(_)
SumLen(body) == IF body = <<>> THEN 0 ELSE Len(Head(body).anchors) + SumLen(Tail(body))

EmptyCache == <<>>

cache_record(article_path, html) ==
  [html |-> html, url |-> urljoin(WIKI_BASE, article_path)]

\* the cache directory outlives a run: it is empty, or holds a page of an
\* earlier run
InitialCaches ==
  {EmptyCache, NodeB :> cache_record(NodeB, LinkPage(<<NodeD, NodeD>>))}

\* the searches that are started: from A or B, to A or D
Sources == {NodeA, NodeB}
Targets == {NodeA, NodeD}

\* references handed to solve: each node in one of the accepted forms (bare
\* path, full URL, mobile URL), and references outside the article namespace
\* as a bare path and as a full URL
FullUrl(node) == WIKI_BASE \o node
MobileUrl(node) == MOBILE_BASE \o node
BadRef == <<"/", "w", "/", "A">>
SourceRefs == {NodeA, FullUrl(NodeB), BadRef, FullUrl(BadRef)}
TargetRefs == {FullUrl(NodeA), MobileUrl(NodeD), BadRef, FullUrl(BadRef)}

(***************************************************************************)
(* State                                                                   *)
(***************************************************************************)
VARIABLES
  pc,              \* "idle", "loop" (line 220), "done" (returned), "raised"
  src, dst, max_expansions,   \* the arguments of bfs_shortest_path
  q, prev, pos_map, expansions,   \* its locals (lines 215-218)
  result,          \* the returned (path, pos_map)
  stdout,          \* the nodes printed by line 222, in order
  cache,           \* the cache directory
  requests,        \* network requests issued so far
  sleeps,          \* politeness delays taken so far
  served,          \* links on the pages the network has served so far
  expanded         \* what neighbors returned, per expanded node

\* one call of the extraction (lines 117-180) on a parsed document
VARIABLES
  xpc,             \* "idle", "start" (line 117), "loop" (line 130), "returned"
  doc,             \* the parsed document
  idx,             \* the child of the body the loop of line 130 is at
  links, positions, current_section, in_skip_section,   \* lines 123-127
  xresult          \* the returned (ordered, positions)

\* the fetch_html calls made on their own
VARIABLES
  log              \* per call, in order: [node, raised, html, requests, sleeps, answer]

fetchVars == <<log>>

\* norm_article_url applied on its own
VARIABLES
  npath,           \* the path, with what follows it, that the references carry
  nreturn          \* per reference form tried: [raised, value] of norm_article_url

normVars == <<npath, nreturn>>

\* the references solve was called with
VARIABLES
  src_input, dst_input

solveVars == <<src_input, dst_input>>

searchVars ==
  <<pc, src, dst, max_expansions, q, prev, pos_map, expansions, result, stdout,
    cache, requests, sleeps, served, expanded>>

extractVars ==
  <<xpc, doc, idx, links, positions, current_section, in_skip_section, xresult>>

vars == <<searchVars, extractVars, fetchVars, normVars, solveVars>>

NoResult == [path |-> None, pos_map |-> <<>>]

\* no extraction call is modelled on its own
ExtractIdle ==
  /\ xpc = "idle"
  /\ doc = NoContentPage
  /\ idx = 1
  /\ links = <<>> /\ positions = <<>>
  /\ current_section = "Lead" /\ in_skip_section = FALSE
  /\ xresult = [links |-> <<>>, positions |-> <<>>]

SearchInit ==
  /\ pc = "idle"
  /\ src = None /\ dst = None /\ max_expansions = 0
  /\ q = <<>> /\ prev = <<>> /\ pos_map = <<>> /\ expansions = 0
  /\ result = NoResult
  /\ stdout = <<>>
  /\ cache \in InitialCaches
  /\ requests = 0 /\ sleeps = 0 /\ served = 0
  /\ expanded = <<>>

\* the entry without the special case of lines 212-213
bfs_enter_always_search(s, d, m) ==
  /\ src' = s /\ dst' = d /\ max_expansions' = m
  /\ pc' = "loop"
  /\ q' = <<s>>
  /\ prev' = (s :> None)
  /\ pos_map' = <<>>
  /\ expansions' = 0
  /\ UNCHANGED <<result, stdout, cache, requests, sleeps, served, expanded>>

\* lines 212-218: the entry of bfs_shortest_path(s, d, m)
bfs_enter(s, d, m) ==
  /\ src' = s /\ dst' = d /\ max_expansions' = m
  /\ IF s = d
     THEN /\ pc' = "done"
          /\ result' = [path |-> <<s>>, pos_map |-> <<>>]
          /\ UNCHANGED <<q, prev, pos_map, expansions>>
     ELSE /\ pc' = "loop"
          /\ q' = <<s>>
          /\ prev' = (s :> None)
          /\ pos_map' = <<>>
          /\ expansions' = 0
          /\ UNCHANGED result
  /\ UNCHANGED <<stdout, cache, requests, sleeps, served, expanded>>

\* a direct call bfs_shortest_path(s, d, m)
bfs_shortest_path ==
  /\ pc = "idle"
  /\ \E s \in Sources, d \in Targets, m \in 0..MaxBudget : bfs_enter(s, d, m)

\* solve(src_input, dst_input): lines 262-264
solve ==
  /\ pc = "idle"
  /\ \E s_in \in SourceRefs, d_in \in TargetRefs :
       LET s == norm_article_url(s_in)
           d == norm_article_url(d_in)
       IN  /\ src_input' = s_in /\ dst_input' = d_in
           /\ IF s.raised \/ d.raised
              THEN /\ pc' = "raised"
                   /\ UNCHANGED <<src, dst, max_expansions, q, prev, pos_map, expansions,
                                  result, stdout, cache, requests, sleeps, served, expanded>>
              ELSE bfs_enter(s.value, d.value, SOLVE_MAX_EXPANSIONS)

\* lines 222-236 once u is dequeued, its neighbors n are known and the for
\* loop has run with outcome r
bfs_record(u, resp, n, r) ==
  /\ stdout' = Append(stdout, u)
  /\ expansions' = expansions + 1
  /\ cache' = n.cache
  /\ requests' = requests + n.requests
  /\ sleeps' = sleeps + n.sleeps
  /\ served' = served + n.requests * SumLen(resp.html.body)
  /\ expanded' = (u :> [links |-> n.links, positions |-> n.positions]) @@ expanded
  /\ prev' = r.prev
  /\ pos_map' = r.pos_map
  /\ q' = r.q
  /\ IF n.raised
     THEN pc' = "raised" /\ UNCHANGED result
     ELSE IF r.found
          THEN /\ pc' = "done"
               /\ result' = [path |-> reconstruct_path(r.prev, src, dst),
                              pos_map |-> r.pos_map]
          ELSE pc' = "loop" /\ UNCHANGED result

\* lines 227-236: the for loop over the neighbors n of the dequeued node
bfs_visit(p, resp, n) ==
  bfs_record(p.u, resp, n, visit(n.links, n.positions, 1, p.u, dst, prev, pos_map, p.q))

\* lines 221-226: p is the popped node and the rest of the queue
bfs_expand(p, resp) == bfs_visit(p, resp, neighbors(p.u, cache, resp))

\* lines 220-236: one iteration of the while loop, with the network's answer
\* to the request this expansion may issue
bfs_iterate ==
  /\ pc = "loop"
  /\ q # <<>> /\ expansions <= max_expansions
  /\ \E resp \in NetResponses(MaxLinks - served) : bfs_expand(popleft(q), resp)
  /\ UNCHANGED <<src, dst, max_expansions>>

\* line 238: the loop ended without the destination
bfs_not_found ==
  /\ pc = "loop"
  /\ ~(q # <<>> /\ expansions <= max_expansions)
  /\ pc' = "done"
  /\ result' = NoResult
  /\ UNCHANGED <<src, dst, max_expansions, q, prev, pos_map, expansions, stdout,
                 cache, requests, sleeps, served, expanded>>

\* no fetch call is modelled on its own
FetchIdle == log = <<>>

\* norm_article_url is not applied on its own
NormIdle == npath = <<>> /\ nreturn = <<>>

\* solve has not been called
SolveIdle == src_input = None /\ dst_input = None

Init == SearchInit /\ ExtractIdle /\ FetchIdle /\ NormIdle /\ SolveIdle

Next ==
  \/ bfs_shortest_path /\ UNCHANGED <<extractVars, fetchVars, normVars, solveVars>>
  \/ solve /\ UNCHANGED <<extractVars, fetchVars, normVars>>
  \/ bfs_iterate /\ UNCHANGED <<extractVars, fetchVars, normVars, solveVars>>
  \/ bfs_not_found /\ UNCHANGED <<extractVars, fetchVars, normVars, solveVars>>

Spec == Init /\ [][Next]_vars

(***************************************************************************)
(* The extraction on its own: a document is parsed and its body is walked  *)
(* child by child.                                                         *)
(***************************************************************************)
\* a body holds at most MaxChildren children
MaxChildren == 3

HrefA == NodeA
HrefAFragment == NodeA \o <<"#", "H">>
HrefB == NodeB
HrefFile == ARTICLE_PREFIX \o <<"F", ":", "X">>
HrefFileEncoded == ARTICLE_PREFIX \o <<"F", "%", "3", "A", "X">>

anchor(href, text, classes, ancestors) ==
  [has_href |-> TRUE, href |-> href, classes |-> classes, text |-> text,
   ancestors |-> ancestors]

inner(name, classes) == [name |-> name, classes |-> classes]

heading(name, classes, headline, text) ==
  [tag |-> TRUE, name |-> name, classes |-> classes, headline |-> headline,
   text |-> text, anchors |-> <<>>]

\* the children a body is made of
TextNode ==
  [tag |-> FALSE, name |-> "", classes |-> {}, headline |-> NoHeadline,
   text |-> "text", anchors |-> <<>>]
Children ==
  { TextNode,
    heading("h2", {}, "References", "References[edit]"),
    heading("h3", {}, NoHeadline, "History"),
    heading("h2", {"metadata"}, NoHeadline, "Notes"),
    element("p", {}, <<anchor(HrefA, "first", {}, <<>>),
                       anchor(HrefAFragment, "second", {}, <<>>)>>),
    element("p", {}, <<anchor(HrefB, "hidden", {}, <<inner("span", {"metadata"})>>),
                       anchor(HrefB, "shown", {}, <<>>)>>),
    element("ul", {}, <<anchor(HrefB, "deep", {},
                               <<inner("li", {"hatnote"}), inner("i", {})>>)>>),
    element("div", {"navbox"}, <<anchor(HrefA, "nav", {}, <<>>)>>),
    element("p", {}, <<anchor(HrefFile, "file", {}, <<>>),
                       anchor(HrefFileEncoded, "encoded", {}, <<>>)>>),
    element("div", {}, <<anchor(HrefB, "boxed", {}, <<>>)>>),
    element("ol", {}, <<anchor(HrefA, "cited", {}, <<inner("sup", {"reference"})>>),
                        anchor(HrefB, "external", {"external"}, <<>>),
                        [anchor(HrefB, "named", {}, <<>>) EXCEPT !.has_href = FALSE]>>) }

ExtractDocs ==
  {NoContentPage}
    \cup {[broken |-> FALSE, content |-> TRUE, body |-> b] :
            b \in SeqsUpTo(Children, MaxChildren)}

SearchIdle ==
  /\ pc = "idle"
  /\ src = None /\ dst = None /\ max_expansions = 0
  /\ q = <<>> /\ prev = <<>> /\ pos_map = <<>> /\ expansions = 0
  /\ result = NoResult
  /\ stdout = <<>>
  /\ cache = EmptyCache
  /\ requests = 0 /\ sleeps = 0 /\ served = 0
  /\ expanded = <<>>

ExtractInit ==
  /\ xpc = "start"
  /\ doc \in ExtractDocs
  /\ idx = 1
  /\ links = <<>> /\ positions = <<>>
  /\ current_section = "Lead" /\ in_skip_section = FALSE
  /\ xresult = [links |-> <<>>, positions |-> <<>>]

\* lines 117-119: no content container
extract_no_content ==
  /\ xpc = "start" /\ ~doc.content
  /\ xpc' = "returned"
  /\ xresult' = [links |-> <<>>, positions |-> <<>>]
  /\ UNCHANGED <<doc, idx, links, positions, current_section, in_skip_section>>

\* lines 121-127: the body is found and the locals are set
extract_begin ==
  /\ xpc = "start" /\ doc.content
  /\ xpc' = "loop"
  /\ idx' = 1
  /\ links' = extract_start.links
  /\ positions' = extract_start.positions
  /\ current_section' = extract_start.current_section
  /\ in_skip_section' = extract_start.in_skip_section
  /\ UNCHANGED <<doc, xresult>>

\* lines 130-171: one child of the body
extract_child ==
  /\ xpc = "loop" /\ idx <= Len(doc.body)
  /\ LET st == process_child([links |-> links, positions |-> positions,
                              current_section |-> current_section,
                              in_skip_section |-> in_skip_section], doc.body[idx])
     IN  /\ links' = st.links
         /\ positions' = st.positions
         /\ current_section' = st.current_section
         /\ in_skip_section' = st.in_skip_section
  /\ idx' = idx + 1
  /\ UNCHANGED <<xpc, doc, xresult>>

\* lines 173-180: deduplicate and return
extract_return ==
  /\ xpc = "loop" /\ idx > Len(doc.body)
  /\ xpc' = "returned"
  /\ xresult' = [links |-> dedup(links), positions |-> positions]
  /\ UNCHANGED <<doc, idx, links, positions, current_section, in_skip_section>>

InitExtract == SearchIdle /\ ExtractInit /\ FetchIdle /\ NormIdle /\ SolveIdle

NextExtract ==
  \/ extract_no_content /\ UNCHANGED <<searchVars, fetchVars, normVars, solveVars>>
  \/ extract_begin /\ UNCHANGED <<searchVars, fetchVars, normVars, solveVars>>
  \/ extract_child /\ UNCHANGED <<searchVars, fetchVars, normVars, solveVars>>
  \/ extract_return /\ UNCHANGED <<searchVars, fetchVars, normVars, solveVars>>

SpecExtract == InitExtract /\ [][NextExtract]_vars

(***************************************************************************)
(* The fetcher on its own: fetch_html is called again and again, for any   *)
(* node, and the network answers each request as it likes.                 *)
(***************************************************************************)
\* at most MaxFetches calls of fetch_html are made
MaxFetches == 3

FetchNodes == {NodeA, NodeB}

FetchResponses ==
  {[kind |-> "ok", html |-> d] : d \in {LinkPage(<<>>), LinkPage(<<NodeA>>)}}
    \cup {[kind |-> k, html |-> NoContentPage] : k \in {"transport_error", "bad_status"}}

InitFetch ==
  /\ pc = "idle"
  /\ src = None /\ dst = None /\ max_expansions = 0
  /\ q = <<>> /\ prev = <<>> /\ pos_map = <<>> /\ expansions = 0
  /\ result = NoResult
  /\ stdout = <<>>
  /\ cache \in InitialCaches
  /\ requests = 0 /\ sleeps = 0 /\ served = 0
  /\ expanded = <<>>
  /\ ExtractIdle
  /\ NormIdle /\ SolveIdle
  /\ log = <<>>

\* one call fetch_html(n), with the network's answer should it be asked
fetch_call ==
  /\ Len(log) < MaxFetches
  /\ \E n \in FetchNodes, resp \in FetchResponses :
       LET f == fetch_html(n, cache, resp) IN
       /\ cache' = f.cache
       /\ requests' = requests + f.requests
       /\ sleeps' = sleeps + f.sleeps
       /\ log' = Append(log, [node |-> n, raised |-> f.raised,
                              html |-> IF f.raised THEN NoContentPage ELSE f.html,
                              requests |-> f.requests, sleeps |-> f.sleeps,
                              answer |-> IF f.requests = 0 THEN "none" ELSE resp.kind])
  /\ UNCHANGED <<pc, src, dst, max_expansions, q, prev, pos_map, expansions, result,
                 stdout, served, expanded>>

NextFetch == fetch_call /\ UNCHANGED <<extractVars, normVars, solveVars>>

SpecFetch == InitFetch /\ [][NextFetch]_vars

(***************************************************************************)
(* Properties of the search                                                *)
(***************************************************************************)
Range(f) == {f[i] : i \in DOMAIN f}

Found == pc = "done" /\ result.path # None

\* The graph the expand capability gave.  neighbors was asked only about the
\* nodes of expanded; a node it was never asked about may link anywhere, so
\* it is given every link: a hop count that is minimal here is minimal in
\* every graph that agrees with what neighbors returned.
Successors(u) == IF u \in DOMAIN expanded THEN Range(expanded[u].links) ELSE Nodes

\* hop count from the nodes of front (k hops from the source) to dst, -1 if
\* dst cannot be reached
RECURSIVE HopsFrom(_, _, _)
HopsFrom(front, seen, k) ==
  IF dst \in front THEN k
  ELSE IF front = {} THEN 0 - 1
  ELSE LET next == UNION {Successors(u) : u \in front} \ seen IN
       HopsFrom(next, seen \cup next, k + 1)

MinHops == HopsFrom({src}, {src}, 0)

\* C1: whenever bfs_shortest_path returns a path, its hop count is the
\* minimum hop count over all paths from the source to the destination in the
\* graph given by expand: no strictly shorter path exists.
C1_ShortestPath == Found => Len(result.path) - 1 = MinHops

\* a two-hop path returned after three expansions: a node off the path was
\* expanded before the destination was found
C1_Witness == Found /\ Len(result.path) = 3 /\ Len(stdout) = 3

\* The number of nodes a breadth-first search without budget expands until it
\* discovers dst, over the graph neighbors returned; 0 when that is not
\* known (dst not reached within the expanded nodes).
RECURSIVE RefExpansions(_, _, _)
RefExpansions(queue, seen, count) ==
  IF queue = <<>> THEN 0
  ELSE LET u == Head(queue) IN
       IF u \notin DOMAIN expanded THEN 0
       ELSE LET nbrs == expanded[u].links
                NotSeen(v) == v \notin seen
                fresh == SelectSeq(nbrs, NotSeen)
            IN  IF dst \in Range(nbrs) THEN count + 1
                ELSE RefExpansions(Tail(queue) \o fresh, seen \cup Range(fresh), count + 1)

NeededExpansions == RefExpansions(<<src>>, {src}, 0)

\* C2: if the destination is reachable from a different source and
\* max_expansions is smaller than the number of nodes breadth-first search has
\* to expand before the destination is discovered, the search returns
\* not-found (no path, empty labels).
C2_BudgetBelowNeed ==
  (pc = "done" /\ src # dst /\ NeededExpansions > 0 /\ max_expansions < NeededExpansions)
    => result = NoResult

\* C3: when source equals destination the search returns the single-node
\* path with an empty label map and expands nothing: no node is dequeued, no
\* fetch is made and the cache is as it was, whatever max_expansions is.
C3_SameSourceAndDestination ==
  (pc = "done" /\ src = dst) =>
     /\ result = [path |-> <<src>>, pos_map |-> <<>>]
     /\ expansions = 0 /\ stdout = <<>> /\ expanded = <<>>
     /\ requests = 0 /\ sleeps = 0 /\ cache \in InitialCaches

C3_Witness == pc = "done" /\ src = dst /\ max_expansions = 0

\* the k-th dequeued node
Dequeued(k) == stdout[k]
DequeuedLinks(k) == expanded[stdout[k]].links

\* The order of discovery: the source, then for each dequeued node in turn the
\* nodes of its neighbor sequence that were not discovered before, in the
\* order neighbors returned them.
RECURSIVE Discovery(_, _)
Discovery(k, acc) ==
  IF k > Len(stdout) THEN acc
  ELSE LET New(v) == v \notin Range(acc) IN
       Discovery(k + 1, acc \o SelectSeq(DequeuedLinks(k), New))

\* the k-th dequeued node is the first whose neighbor sequence holds v
IsFirstParent(k, v) ==
  /\ v \in Range(DequeuedLinks(k))
  /\ \A j \in 1..(k - 1) : v \notin Range(DequeuedLinks(j))

\* C4: nodes are dequeued in the order of their discovery (FIFO, neighbors in
\* the order expand returned them), and on a returned path every node other
\* than the source is preceded by the earliest-dequeued node whose neighbor
\* sequence contains it: of several shortest paths the first discovered wins.
C4_FirstDiscoveredWins ==
  /\ pc \in {"loop", "done"} /\ src # dst =>
       LET order == Discovery(1, <<src>>) IN
       \A k \in 1..Len(stdout) : k <= Len(order) /\ Dequeued(k) = order[k]
  /\ Found /\ src # dst =>
       \A i \in 2..Len(result.path) :
          \E k \in 1..Len(stdout) :
             Dequeued(k) = result.path[i - 1] /\ IsFirstParent(k, result.path[i])

\* a node of the returned path is linked from two dequeued nodes
C4_Witness ==
  /\ Found /\ src # dst
  /\ \E i \in 2..Len(result.path) : \E j, k \in 1..Len(stdout) :
        /\ j # k
        /\ result.path[i] \in Range(DequeuedLinks(j))
        /\ result.path[i] \in Range(DequeuedLinks(k))

\* the expansion of u failed: the fetch raised (nothing was cached) or the
\* cached page cannot be parsed
ExpansionFailed(u, c) == u \notin DOMAIN c \/ c[u].html.broken

\* a page that is fetched and parsed successfully and has no outgoing link
ZeroLinkPage == LinkPage(<<>>)

\* C5: expansion is fail-open.  A loop iteration whose expansion fails (fetch
\* error, non-success status, parse exception) never raises, and leaves the
\* search exactly where the successful expansion of a page with zero outgoing
\* links leaves it: same frontier, predecessors, labels, count and output,
\* and the loop goes on.
C5_FailOpen ==
  [][(pc = "loop" /\ stdout # stdout' /\ ExpansionFailed(Head(q), cache')) =>
       LET u == Head(q)
           z == parse_links(ZeroLinkPage)
           r == visit(z.links, z.positions, 1, u, dst, prev, pos_map, Tail(q))
       IN  /\ pc' = "loop" /\ result' = result
           /\ q' = r.q /\ prev' = r.prev /\ pos_map' = r.pos_map
           /\ expansions' = expansions + 1
           /\ stdout' = Append(stdout, u)
           /\ expanded'[u].links = z.links]_vars

\* a path was found although a node expanded on the way failed
C5_Witness ==
  /\ Found /\ Len(result.path) = 3
  /\ \E u \in DOMAIN expanded : ExpansionFailed(u, cache)

(***************************************************************************)
(* Properties of the extraction.  The document is read here as a           *)
(* structure: an occurrence is an anchor j of child i of the body.         *)
(***************************************************************************)
Occurrences(d) ==
  UNION {{<<i, j>> : j \in 1..Len(d.body[i].anchors)} : i \in 1..Len(d.body)}

Before(o1, o2) == o1[1] < o2[1] \/ (o1[1] = o2[1] /\ o1[2] < o2[2])

\* the anchor links to NodeId n
LinksTo(d, o, n) ==
  LET a == d.body[o[1]].anchors[o[2]] IN
  a.has_href /\ ~norm_article_url(a.href).raised /\ norm_article_url(a.href).value = n

IsHeading(c) == c.tag /\ c.name \in {"h2", "h3", "h4"}

\* child i lies in a denylisted section: the latest h2-h4 child before it, of
\* those that count as headings, names one
InSkippedSection(d, i, Counts(_)) ==
  \E k \in 1..(i - 1) :
     /\ Counts(d.body[k])
     /\ \A m \in (k + 1)..(i - 1) : ~Counts(d.body[m])
     /\ heading_section(d.body[k]) \in SKIP_SECTIONS

\* the filters of an anchor other than sections and containers: it sits in a
\* paragraph or list, has an href of the main namespace, is no citation
\* marker and carries no marker class
Eligible(d, o) ==
  LET c == d.body[o[1]]
      a == c.anchors[o[2]]
  IN  /\ c.tag /\ c.name \in {"p", "ul", "ol"}
      /\ a.has_href
      /\ ~in_sup_reference(a)
      /\ a.classes \cap SKIP_ANCHOR_CLASSES = {}
      /\ in_main_namespace(a.href)

\* some element that encloses the anchor within the body is a non-content
\* container
EnclosedInContainer(d, o) ==
  LET c == d.body[o[1]]
      a == c.anchors[o[2]]
  IN  \/ is_skippable_container(c.classes)
      \/ \E k \in 1..Len(a.ancestors) : is_skippable_container(a.ancestors[k].classes)

\* the child of the body that holds the anchor, or the anchor's immediate
\* parent, is a non-content container
DirectlyInContainer(d, o) ==
  LET c == d.body[o[1]]
      a == c.anchors[o[2]]
  IN  \/ is_skippable_container(c.classes)
      \/ /\ a.ancestors # <<>>
         /\ is_skippable_container(a.ancestors[Len(a.ancestors)].classes)

\* a heading the loop takes as one: an h2-h4 child that is no non-content
\* container itself
IsPlainHeading(c) == IsHeading(c) /\ ~is_skippable_container(c.classes)

\* valid occurrence, as the claim words it and as the code has it
ValidAsClaimed(d, o) ==
  Eligible(d, o) /\ ~InSkippedSection(d, o[1], IsHeading) /\ ~EnclosedInContainer(d, o)

Valid(d, o) ==
  Eligible(d, o) /\ ~InSkippedSection(d, o[1], IsPlainHeading) /\ ~DirectlyInContainer(d, o)

\* the anchor text of the first occurrence of n among those of V
IsFirstOf(d, o, n, V(_, _)) ==
  /\ V(d, o) /\ LinksTo(d, o, n)
  /\ \A o2 \in Occurrences(d) : (V(d, o2) /\ LinksTo(d, o2, n)) => ~Before(o2, o)

TextOf(d, o) == d.body[o[1]].anchors[o[2]].text

\* C6: edge labels are first-occurrence-wins.  The label the search holds
\* for an edge (A, B) is the anchor text of the first accepted link to B on
\* the page of A, in document order; later links to B never replace it.
C6_FirstLabelWins ==
  /\ \A e \in DOMAIN pos_map :
        /\ e[1] \in DOMAIN cache
        /\ \E o \in Occurrences(cache[e[1]].html) :
              /\ IsFirstOf(cache[e[1]].html, o, e[2], Valid)
              /\ pos_map[e] = TextOf(cache[e[1]].html, o)
  /\ Found => result.pos_map = pos_map

\* the page of A links to B twice, under different anchor texts, and the
\* search holds a label for (A, B)
C6_Witness ==
  \E e \in DOMAIN pos_map :
     \E o1, o2 \in Occurrences(cache[e[1]].html) :
        /\ Before(o1, o2)
        /\ LinksTo(cache[e[1]].html, o1, e[2])
        /\ LinksTo(cache[e[1]].html, o2, e[2])
        /\ TextOf(cache[e[1]].html, o1) # TextOf(cache[e[1]].html, o2)

Returned == xpc = "returned"

\* C7 as stated: the extraction never yields a NodeId all of whose linking
\* anchors lie inside a denylisted section or inside a non-content container
\* (an enclosing element of one of the container classes); a NodeId is there
\* only if one of its anchors is a valid occurrence, and its first label is
\* that of the first valid occurrence.
C7_AsStated ==
  Returned =>
    \A i \in 1..Len(xresult.links) :
       LET n == xresult.links[i] IN
       /\ \E o \in Occurrences(doc) :
             /\ LinksTo(doc, o, n)
             /\ ~InSkippedSection(doc, o[1], IsHeading)
             /\ ~EnclosedInContainer(doc, o)
       /\ \E o \in Occurrences(doc) :
             /\ IsFirstOf(doc, o, n, ValidAsClaimed)
             /\ xresult.positions[n][1] = TextOf(doc, o)

\* C7, amended: the extraction never yields a NodeId all of whose linking
\* anchors lie under a child of the body that follows a denylisted h2-h4
\* heading (the latest h2-h4 child that is not itself a non-content
\* container), or under a child of the body that is a non-content container,
\* or directly inside a parent element that is one; a NodeId is there only if
\* one of its anchors is a valid occurrence in this sense, and its first
\* label is that of the first valid occurrence.
C7_NoHiddenNeighbor ==
  Returned =>
    \A i \in 1..Len(xresult.links) :
       LET n == xresult.links[i] IN
       /\ \E o \in Occurrences(doc) :
             /\ LinksTo(doc, o, n)
             /\ ~InSkippedSection(doc, o[1], IsPlainHeading)
             /\ ~DirectlyInContainer(doc, o)
       /\ \E o \in Occurrences(doc) :
             /\ IsFirstOf(doc, o, n, Valid)
             /\ xresult.positions[n][1] = TextOf(doc, o)

\* a NodeId is returned that is linked three ways: first directly inside a
\* non-content container, then validly, and again in a denylisted section
C7_Witness ==
  /\ Returned /\ xresult.links # <<>>
  /\ \E o1, o2, o3 \in Occurrences(doc) :
        /\ Before(o1, o2)
        /\ LinksTo(doc, o1, xresult.links[1]) /\ Eligible(doc, o1)
        /\ DirectlyInContainer(doc, o1)
        /\ IsFirstOf(doc, o2, xresult.links[1], Valid)
        /\ LinksTo(doc, o3, xresult.links[1]) /\ Eligible(doc, o3)
        /\ InSkippedSection(doc, o3[1], IsPlainHeading)

\* the title of a NodeId: what follows the article prefix
TitleOf(n) == Drop(n, Len(ARTICLE_PREFIX) + 1)

\* C8: no NodeId the extraction returns has a colon in its title, also when
\* the colon of the href is percent-encoded.
C8_NoNamespaceColon ==
  Returned => \A i \in 1..Len(xresult.links) : ":" \notin Range(TitleOf(xresult.links[i]))

\* the NodeIds of the valid occurrences from occurrence (i, j) on, in
\* document order
RECURSIVE ValidNodesFrom(_, _, _)
ValidNodesFrom(d, i, j) ==
  IF i > Len(d.body) THEN <<>>
  ELSE IF j > Len(d.body[i].anchors) THEN ValidNodesFrom(d, i + 1, 1)
  ELSE IF Valid(d, <<i, j>>)
       THEN <<norm_article_url(d.body[i].anchors[j].href).value>>
              \o ValidNodesFrom(d, i, j + 1)
       ELSE ValidNodesFrom(d, i, j + 1)

FirstIndex(seq, x) == CHOOSE k \in 1..Len(seq) : seq[k] = x /\ \A m \in 1..(k - 1) : seq[m] # x

\* C9: the returned sequence holds every accepted NodeId exactly once, in
\* the order of the first accepted occurrences in the document, also when
\* different hrefs normalize to one NodeId.
C9_OrderedNoDuplicates ==
  (Returned /\ doc.content) =>
    LET occ == ValidNodesFrom(doc, 1, 1)
        out == xresult.links
    IN  /\ \A a, b \in 1..Len(out) : a # b => out[a] # out[b]
        /\ Range(out) = Range(occ)
        /\ \A a, b \in 1..Len(out) :
              a < b => FirstIndex(occ, out[a]) < FirstIndex(occ, out[b])

\* two different hrefs of one NodeId are both accepted, and another NodeId
\* is returned after it
C9_Witness ==
  /\ Returned /\ Len(xresult.links) >= 2
  /\ \E o1, o2 \in Occurrences(doc) :
        /\ Valid(doc, o1) /\ Valid(doc, o2)
        /\ LinksTo(doc, o1, xresult.links[1]) /\ LinksTo(doc, o2, xresult.links[1])
        /\ doc.body[o1[1]].anchors[o1[2]].href # doc.body[o2[1]].anchors[o2[2]].href

(***************************************************************************)
(* The normalizer on its own: one article reference, given as a full       *)
(* desktop URL, as a mobile-host URL and as a bare path (lines 38-41).     *)
(***************************************************************************)
Forms == {"desktop", "mobile", "path"}

\* the reference of a form: the host of the form in front of the path
Reference(form, path) ==
  IF form = "desktop" THEN WIKI_BASE \o path
  ELSE IF form = "mobile" THEN MOBILE_BASE \o path
  ELSE path

PathPrefixes == {ARTICLE_PREFIX, <<"/", "w", "/">>, <<"/">>}

Titles ==
  { <<"A">>, <<"A", "_", "B">>, <<"A", " ", "B">>, <<"A", "%", "2", "0", "B">>,
    <<"%", "4", "1">>, <<"%", "2", "5", "4", "1">>, <<"A", "%", "2", "3", "H">>,
    <<"A", "%", "3", "F", "x">> }

\* what may follow the title: a fragment, a query string, both, parameters
Suffixes ==
  { <<>>, <<"#", "H">>, <<"?", "x">>, <<"?", "x", "#", "H">>, <<";", "p">> }

NormPaths == {p \o t \o x : p \in PathPrefixes, t \in Titles, x \in Suffixes}

SearchAndFetchIdle == SearchIdle /\ ExtractIdle /\ FetchIdle

InitNorm ==
  /\ SearchAndFetchIdle /\ SolveIdle
  /\ npath \in NormPaths
  /\ nreturn = <<>>

\* norm_article_url(Reference(form, npath)) for a form not yet tried
normalize ==
  \E form \in Forms \ DOMAIN nreturn :
     /\ nreturn' = (form :> norm_article_url(Reference(form, npath))) @@ nreturn
     /\ UNCHANGED npath

NextNorm == normalize /\ UNCHANGED <<searchVars, extractVars, fetchVars, solveVars>>

SpecNorm == InitNorm /\ [][NextNorm]_vars

(***************************************************************************)
(* Properties of the fetcher                                               *)
(***************************************************************************)
Succeeded(i) == ~log[i].raised

\* C10: once fetch_html(n) has succeeded, every later fetch_html(n) returns
\* the same document body, with no politeness delay and no network request,
\* and the cache entry of n is never rewritten; so at most one successful
\* network request is made per NodeId.
C10_FetchOnce ==
  /\ \A i, j \in 1..Len(log) :
        (i < j /\ log[i].node = log[j].node /\ Succeeded(i)) =>
           /\ Succeeded(j)
           /\ log[j].html = log[i].html
           /\ log[j].requests = 0 /\ log[j].sleeps = 0
  /\ \A i \in 1..Len(log) :
        Succeeded(i) =>
           /\ log[i].node \in DOMAIN cache
           /\ cache[log[i].node].html = log[i].html
  /\ \A n \in FetchNodes :
        Cardinality({i \in 1..Len(log) :
                       log[i].node = n /\ Succeeded(i) /\ log[i].requests = 1}) <= 1

\* a node is fetched from the network, then fetched twice more
C10_Witness ==
  /\ Len(log) = 3
  /\ log[1].node = log[2].node /\ log[2].node = log[3].node
  /\ Succeeded(1) /\ log[1].requests = 1

\* the call just made, in a step that makes one
LastCall == log'[Len(log')]

\* C11: a fetch_html call on a cache miss issues exactly one network request;
\* when that request fails (transport error or bad status) the call raises,
\* the cache is left as it was with no entry for the node, and the next call
\* for the same node is a miss again and goes to the network.
C11_MissNoRetry ==
  [][ (Len(log') = Len(log) + 1 /\ LastCall.node \notin DOMAIN cache) =>
         /\ LastCall.requests = 1
         /\ LastCall.answer # "ok" =>
               /\ LastCall.raised
               /\ cache' = cache
               /\ LastCall.node \notin DOMAIN cache'
         /\ \A i \in 1..Len(log) :
               ( /\ log[i].node = LastCall.node
                 /\ log[i].answer \in {"transport_error", "bad_status"}
                 /\ \A k \in (i + 1)..Len(log) : log[k].node # LastCall.node )
               => LastCall.answer # "none" ]_vars

\* a request for a node failed, and the next call for that node asked the
\* network again
C11_Witness ==
  /\ Len(log) >= 2
  /\ log[1].node = log[2].node
  /\ log[1].answer = "bad_status" /\ log[1].raised
  /\ log[2].requests = 1

(***************************************************************************)
(* Properties of the predecessor map                                       *)
(***************************************************************************)
NoRepeats(seq) == \A i, j \in 1..Len(seq) : seq[i] = seq[j] => i = j

\* C16: a NodeId enters the predecessor map at most once and its predecessor
\* never changes afterwards; so every node is enqueued at most once (the
\* dequeued nodes followed by the queued ones repeat no node) and expanded at
\* most once, and the source keeps the predecessor None.
C16_PredecessorSetOnce ==
  /\ [][ \A n \in DOMAIN prev : n \in DOMAIN prev' /\ prev'[n] = prev[n] ]_vars
  /\ [](/\ NoRepeats(stdout \o q)
        /\ Range(stdout) \cup Range(q) \subseteq DOMAIN prev
        /\ pc = "loop" => src \in DOMAIN prev
        /\ src \in DOMAIN prev => prev[src] = None)

\* a node was found again from a second expanded node, and the source was
\* linked back to, and neither changed the map
C16_Witness ==
  /\ Len(stdout) >= 2
  /\ \E v \in DOMAIN prev :
        /\ v \in Range(DequeuedLinks(1)) /\ v \in Range(DequeuedLinks(2))
        /\ prev[v] = Dequeued(1)
  /\ src \in Range(DequeuedLinks(2))
  /\ prev[src] = None

(***************************************************************************)
(* Reachability in the graph that the expansions returned                  *)
(***************************************************************************)
\* the links neighbors returned for u; none are known of a node that was not
\* expanded
KnownSuccessors(u) == IF u \in DOMAIN expanded THEN Range(expanded[u].links) ELSE {}

RECURSIVE ReachFrom(_, _)
ReachFrom(front, seen) ==
  IF front = {} THEN seen
  ELSE LET next == (UNION {KnownSuccessors(u) : u \in front}) \ seen
       IN  ReachFrom(next, seen \cup next)

Reachable == ReachFrom({src}, {src})

Finished == pc = "done"

\* C17: when max_expansions is at least the number of nodes reachable from
\* the source, the search returns a path iff the destination is reachable
\* from the source in the graph the expansions returned, and it returns
\* not-found with an empty label map exactly when the queue ran empty without
\* the destination being discovered.
C17_NonBindingBudget ==
  (Finished /\ max_expansions >= Cardinality(Reachable)) =>
     /\ (result.path # None) <=> (dst \in Reachable)
     /\ (result = NoResult) <=> (q = <<>> /\ src # dst /\ dst \notin DOMAIN prev)
     /\ (result.path = None) => result = NoResult

\* the frontier ran empty after three expansions, the destination not among
\* the nodes found
C17_Witness ==
  /\ Finished /\ max_expansions >= Cardinality(Reachable)
  /\ result = NoResult
  /\ Len(stdout) = 3 /\ q = <<>>

\* C18: a returned path starts at the source, ends at the destination,
\* repeats no node, and each node after the first is among the neighbors that
\* the expansion of the node before it returned; the backward walk of
\* reconstruct_path reaches the source and stops, so a destination that was
\* discovered always yields a path.
C18_PathWellFormed ==
  /\ Found =>
        LET path == result.path IN
        /\ path[1] = src /\ path[Len(path)] = dst
        /\ NoRepeats(path)
        /\ Len(path) <= Cardinality(DOMAIN prev) \/ src = dst
        /\ \A i \in 1..(Len(path) - 1) :
              /\ path[i] \in DOMAIN expanded
              /\ path[i + 1] \in Range(expanded[path[i]].links)
  /\ (Finished /\ dst \in DOMAIN prev) => Found

\* a two-hop path was returned in a graph with a cycle: the middle node links
\* back to the source
C18_Witness ==
  /\ Found /\ Len(result.path) = 3
  /\ src \in Range(expanded[result.path[2]].links)
  /\ result.path[2] \in Range(expanded[result.path[2]].links)

C20_LabelsOnTreeEdges ==
  /\ \A e \in DOMAIN pos_map : e[2] \in DOMAIN prev /\ prev[e[2]] = e[1]
  /\ \A e, f \in DOMAIN pos_map : e[2] = f[2] => e = f
  /\ Found =>
        /\ \A i \in 1..(Len(result.path) - 1) :
              <<result.path[i], result.path[i + 1]>> \in DOMAIN result.pos_map
        /\ src # dst => result.pos_map = pos_map

\* a two-hop path was returned with labels, after a node with a label was
\* linked again from the second expanded node
C20_Witness ==
  /\ Found /\ Len(result.path) = 3
  /\ Cardinality(DOMAIN result.pos_map) = 3
  /\ \E e \in DOMAIN pos_map :
        /\ e[1] = Dequeued(1)
        /\ e[2] \in Range(DequeuedLinks(2))

(***************************************************************************)
(* Properties of the section tracking                                      *)
(***************************************************************************)
\* the section name after the first n children: the name given by the latest
\* child that counts as a heading, "Lead" when there is none
SectionAfter(d, n, Counts(_)) ==
  IF \E k \in 1..n : Counts(d.body[k])
  THEN LET k == CHOOSE k \in 1..n :
                   Counts(d.body[k]) /\ \A m \in (k + 1)..n : ~Counts(d.body[m])
       IN  heading_section(d.body[k])
  ELSE "Lead"

InLoop == xpc = "loop"

\* C15 as stated: after any prefix of the body's children the flag is true
\* iff the latest h2-h4 child of the prefix, whatever its class attribute,
\* names a denylisted section (false without such a child), that child's name
\* is the current section, and while the flag is true no child adds a link.
C15_AsStated ==
  /\ [](InLoop =>
          /\ current_section = SectionAfter(doc, idx - 1, IsHeading)
          /\ in_skip_section = (SectionAfter(doc, idx - 1, IsHeading) \in SKIP_SECTIONS))
  /\ [][ (InLoop /\ in_skip_section) => (links' = links /\ positions' = positions) ]_vars

\* C15, amended: after any prefix of the body's children the flag is true iff
\* the latest h2-h4 child of the prefix that carries no non-content container
\* class names a denylisted section (false without such a child); every such
\* child sets the current section name and the flag, an h2-h4 child carrying
\* a container class changes neither, and while the flag is true no child
\* adds a link.
C15_SkipFlagTracksHeading ==
  /\ [](InLoop =>
          /\ current_section = SectionAfter(doc, idx - 1, IsPlainHeading)
          /\ in_skip_section = (SectionAfter(doc, idx - 1, IsPlainHeading) \in SKIP_SECTIONS))
  /\ [][ (InLoop /\ in_skip_section) => (links' = links /\ positions' = positions) ]_vars

\* three children are done: a heading of a section that is kept, a heading of
\* a denylisted one, and a paragraph with links, none of which was taken
C15_Witness ==
  /\ InLoop /\ idx = 4
  /\ IsPlainHeading(doc.body[1]) /\ heading_section(doc.body[1]) \notin SKIP_SECTIONS
  /\ IsPlainHeading(doc.body[2]) /\ heading_section(doc.body[2]) \in SKIP_SECTIONS
  /\ \E j \in 1..Len(doc.body[3].anchors) : Eligible(doc, <<3, j>>)
  /\ in_skip_section /\ links = <<>>

\* the path of a reference: what follows scheme and host of an absolute URL,
\* the reference itself otherwise
RefPath(ref) ==
  IF StartsWith(ref, WIKI_BASE) THEN Drop(ref, Len(WIKI_BASE) + 1)
  ELSE IF StartsWith(ref, MOBILE_BASE) THEN Drop(ref, Len(MOBILE_BASE) + 1)
  ELSE ref

OutsideNamespace(ref) == ~StartsWith(RefPath(ref), ARTICLE_PREFIX)

SolveCalled == src_input # None

\* C14: a reference whose path does not begin with the article prefix is
\* rejected, and solve called with such a source or destination raises before
\* any search begins: nothing is dequeued or expanded, no request is made and
\* the cache is not written, then or later.
C14_InvalidReferenceRejected ==
  /\ [][ (~SolveCalled /\ SolveCalled' /\
           (OutsideNamespace(src_input') \/ OutsideNamespace(dst_input'))) =>
          /\ pc' = "raised"
          /\ UNCHANGED <<q, prev, pos_map, expansions, result, stdout, cache,
                         requests, sleeps, expanded>> ]_vars
  /\ [][ (SolveCalled /\
           (OutsideNamespace(src_input) \/ OutsideNamespace(dst_input))) =>
          UNCHANGED vars ]_vars

\* solve was called with a valid source and a destination outside the article
\* namespace, with a document already in the cache
C14_Witness ==
  /\ pc = "raised"
  /\ SolveCalled
  /\ ~OutsideNamespace(src_input) /\ OutsideNamespace(dst_input)
  /\ StartsWith(dst_input, WIKI_BASE)
  /\ cache # EmptyCache

(***************************************************************************)
(* Properties of the normalizer                                            *)
(***************************************************************************)
Accepted(form) == form \in DOMAIN nreturn /\ ~nreturn[form].raised

\* C12: the full desktop URL, the mobile-host URL and the bare path of one
\* article, when accepted, are given the identical NodeId, also when the
\* reference carries a fragment, a query string or percent-encoded characters.
C12_SameNodeIdAcrossForms ==
  \A f, g \in Forms :
     (Accepted(f) /\ Accepted(g)) => nreturn[f].value = nreturn[g].value

\* "%XY" with two hex digits is left in the text
HasPercentEscape(t) ==
  \E i \in 1..(Len(t) - 2) : t[i] = "%" /\ IsHex(t[i + 1]) /\ IsHex(t[i + 2])

\* C13: every NodeId norm_article_url returns begins with the article prefix,
\* has no "#" and no "?", no space and no remaining percent-escape.
C13_NodeIdInvariants ==
  \A f \in Forms :
     Accepted(f) =>
        LET n == nreturn[f].value IN
        /\ StartsWith(n, ARTICLE_PREFIX)
        /\ "#" \notin Range(n)
        /\ "?" \notin Range(n)
        /\ " " \notin Range(n)
        /\ ~HasPercentEscape(n)

====
